---- MODULE Spec2Model ----
(***************************************************************************)
(* A model of QiniuOSSClient (magic_pdf/data/io/qiniu_client.py): the      *)
(* upload-token issuer, the URL signer and the storage gateway methods     *)
(* that wrap each remote call into a result dictionary.                    *)
(*                                                                         *)
(* Conventions.  A Python string built by an f-string is the tuple of its  *)
(* parts (f"{bucket}:{key}" is <<bucket, ":", key>>).  None is the empty   *)
(* tuple and an optional value v is <<v>>.  A dict is a record, so a key   *)
(* is present exactly when it is in the record's DOMAIN.  A call ends in   *)
(* an outcome: [kind |-> "return", value |-> v] or                         *)
(* [kind |-> "raise", exc |-> class, msg |-> str(e)].                      *)
(***************************************************************************)
EXTENDS Integers, Sequences, FiniteSets, TLC

VARIABLES
    config,      \* self.config: the 'qiniu' section of the configuration file
    bucket_name, \* self.bucket_name
    domain,      \* self.domain: tuple of its characters' parts, <<>> when ''
    now,         \* the clock read by time.time(), in ticks
    dirs,        \* local file system: the directories that exist
    files,       \* local file system: regular file path -> size
    objects,     \* the remote bucket: the keys stored in it
    lastCall,    \* the last public method called, with its arguments
    outcome,     \* what that call returned or raised
    events,      \* token issuances and transport calls made by that call
    policy,      \* the upload policy built by the last token issuance
    prevPrivate, \* the private URL issued before the last one, with its call
    lastPrivate, \* the private URL issued last, with its call
    pgPrefix,    \* a paginated listing: the prefix listed
    pgLimit,     \* a paginated listing: the page size
    pgMarker,    \* a paginated listing: the marker for the next call
    pages,       \* a paginated listing: the results returned so far
    pgDone       \* a paginated listing: a page with is_end was returned

vars == <<config, bucket_name, domain, now, dirs, files, objects, lastCall,
          outcome, events, policy, prevPrivate, lastPrivate,
          pgPrefix, pgLimit, pgMarker, pages, pgDone>>

--------------------------------------------------------------------------
(* Bounds of the model *)

MaxTime == 5          \* the clock runs from tick 0 to this tick
MaxTtl == 2           \* the largest expiry a caller or the configuration gives
MaxLimit == 3         \* the largest page size a listing asks for

(* time.time() has sub-second resolution; int() truncates it to seconds *)
TicksPerSec == 2

--------------------------------------------------------------------------
(* Python values *)

None == <<>>
Some(v) == <<v>>
IsNone(o) == o = None
Value(o) == o[1]

Return(v) == [kind |-> "return", value |-> v]
Raise(exc, msg) == [kind |-> "raise", exc |-> exc, msg |-> msg]
NoOutcome == [kind |-> "none"]

(* int(time.time()) at tick t *)
IntTime(t) == t \div TicksPerSec

(* dict.get(k, default) on a section whose entries are optional *)
Get(opt, default) == IF IsNone(opt) THEN default ELSE Value(opt)

--------------------------------------------------------------------------
(* Configuration: what _load_config returns and _setup_client stores.     *)
(* _load_config rejects an empty access_key, secret_key or bucket_name;   *)
(* every other entry is optional and is not validated.                    *)

DefaultExpires == 3600

UploadPolicies ==
    [expires : {None} \cup {Some(e) : e \in 0..MaxTtl},
     fsizeLimit : {None, Some(0), Some(1024)},
     mime_limit : {None, Some("image/*")}]

Downloads ==
    [expires : {None} \cup {Some(e) : e \in 1..MaxTtl},
     https : {None, Some(FALSE), Some(TRUE)}]

Domains == {"", "cdn.example.com"}

Configs ==
    [access_key : {"AK"}, secret_key : {"SK"}, bucket_name : {"bucket"},
     domain : Domains, upload_policy : UploadPolicies, download : Downloads]

PlainUploadPolicy == [expires |-> None, fsizeLimit |-> None, mime_limit |-> None]
PlainDownload == [expires |-> None, https |-> None]

--------------------------------------------------------------------------
(* Token issuer *)

(* Auth.upload_token: signs the policy document with the secret key *)
upload_token(bucket, key, expires, pol) ==
    [access_key |-> config.access_key,
     signature |-> <<config.secret_key, pol>>,
     policy |-> pol]

(* build_policy with the scope chosen by "if not key": an empty key gives
   the whole bucket *)
build_policy_falsy_key(key, expires, t) ==
    [scope |-> IF IsNone(key) \/ key = Some("") THEN <<bucket_name>>
               ELSE <<bucket_name, ":", Value(key)>>,
     deadline |-> IntTime(t) + expires]

(* build_policy with the expiry itself as the deadline *)
build_policy_relative_deadline(key, expires, t) ==
    [scope |-> IF IsNone(key) THEN <<bucket_name>>
               ELSE <<bucket_name, ":", Value(key)>>,
     deadline |-> expires]

(* The policy dictionary of generate_upload_token for the effective expiry *)
build_policy(key, expires, t) ==
    LET base == [scope |-> IF IsNone(key) THEN <<bucket_name>>
                           ELSE <<bucket_name, ":", Value(key)>>,
                 deadline |-> IntTime(t) + expires]
        upload_policy == config.upload_policy
        withSize == IF Get(upload_policy.fsizeLimit, 0) > 0
                    THEN base @@ [fsizeLimit |-> Value(upload_policy.fsizeLimit)]
                    ELSE base
    IN  IF ~IsNone(upload_policy.mime_limit)
        THEN withSize @@ [mimeLimit |-> Value(upload_policy.mime_limit)]
        ELSE withSize

(* The expiry generate_upload_token uses: the argument, else the configured
   upload_policy.expires, else 3600 *)
token_expires(expires) ==
    IF IsNone(expires) THEN Get(config.upload_policy.expires, DefaultExpires)
    ELSE Value(expires)

(* generate_upload_token(key, expires) called at tick t: the token it
   returns and the policy it built *)
generate_upload_token(key, expires, t) ==
    LET e == token_expires(expires)
        pol == build_policy(key, e, t)
    IN  [token |-> upload_token(bucket_name, key, e, pol), policy |-> pol]

KeyArgs == {None, Some(""), Some("a.txt")}
ExpiresArgs == {None} \cup {Some(e) : e \in -1..MaxTtl}

--------------------------------------------------------------------------
(* URL signer *)

MsgNoDomainPublic == "Domain not configured for public URL generation"
MsgNoDomainPrivate == "Domain not configured for private URL generation"

get_public_url(remote_key) ==
    IF domain = ""
    THEN Raise("ValueError", MsgNoDomainPublic)
    ELSE LET protocol == IF Get(config.download.https, FALSE)
                         THEN "https" ELSE "http"
         IN  Return(<<protocol, "://", domain, "/", remote_key>>)

(* Auth.private_download_url: appends the deadline and a signature of the
   URL with the deadline, made with the secret key *)
private_download_url(base_url, expires, t) ==
    LET deadline == IntTime(t) + expires
        url == base_url \o <<"?e=", deadline>>
    IN  url \o <<"&token=", config.access_key, ":", <<config.secret_key, url>> >>

(* The expiry get_private_url uses: the argument, else the configured
   download.expires, else 3600 *)
url_expires(expires) ==
    IF IsNone(expires) THEN Get(config.download.expires, DefaultExpires)
    ELSE Value(expires)

(* get_private_url that signs with the configured expiry whatever is passed *)
get_private_url_ignores_expires(remote_key, expires, t) ==
    IF domain = ""
    THEN Raise("ValueError", MsgNoDomainPrivate)
    ELSE Return(private_download_url(get_public_url(remote_key).value,
                                     url_expires(None), t))

get_private_url(remote_key, expires, t) ==
    IF domain = ""
    THEN Raise("ValueError", MsgNoDomainPrivate)
    ELSE LET base_url == get_public_url(remote_key)
         IN  IF base_url.kind = "raise" THEN base_url
             ELSE Return(private_download_url(base_url.value,
                                              url_expires(expires), t))

get_download_url(remote_key, expires, t) ==
    get_private_url(remote_key, expires, t)

(* "self.get_public_url(key) if self.domain else None" *)
url_if_domain(remote_key) ==
    IF domain # "" THEN get_public_url(remote_key) ELSE Return(None)

RemoteKeys == {"a.txt", "docs/1"}
UrlExpiresArgs == {None} \cup {Some(e) : e \in 1..MaxTtl}

--------------------------------------------------------------------------
(* The local file system.  A path is the sequence of its components,      *)
(* relative to the working directory: "d/e/f" is <<"d", "e", "f">>.       *)

dirname(path) == SubSeq(path, 1, Len(path) - 1)

exists(path) == path \in DOMAIN files \/ path \in dirs

Ancestors(d) == {SubSeq(d, 1, i) : i \in 1..Len(d)}

MsgNoSuchFile == "[Errno 2] No such file or directory: ''"
MsgNotADirectory == "[Errno 20] Not a directory"
MsgFileExists == "[Errno 17] File exists"

(* os.makedirs(d, exist_ok=True): what it raises, or the directories after *)
makedirs(d) ==
    IF d = <<>>
    THEN [outcome |-> Raise("FileNotFoundError", MsgNoSuchFile), dirs |-> dirs]
    ELSE IF d \in DOMAIN files
    THEN [outcome |-> Raise("FileExistsError", MsgFileExists), dirs |-> dirs]
    ELSE IF \E a \in Ancestors(d) : a \in DOMAIN files
    THEN [outcome |-> Raise("NotADirectoryError", MsgNotADirectory),
          dirs |-> dirs \cup {a \in Ancestors(d) :
                      \A b \in Ancestors(a) : b \notin DOMAIN files}]
    ELSE [outcome |-> Return(None), dirs |-> dirs \cup Ancestors(d)]

(* What the transport does for urllib.request.urlretrieve *)
Fetches == {[status |-> "ok", size |-> 5], [status |-> "short", size |-> 2],
            [status |-> "error", size |-> 0]}

MsgHttpError == "HTTP Error 404: Not Found"
MsgTooShort == "retrieval incomplete"

(* urllib.request.urlretrieve(url, path): raises before the file is opened
   when the request fails, after writing it when the content is short *)
urlretrieve(url, path, fetch) ==
    IF fetch.status = "error"
    THEN [outcome |-> Raise("HTTPError", MsgHttpError), files |-> files]
    ELSE LET written == [p \in DOMAIN files \cup {path} |->
                            IF p = path THEN fetch.size ELSE files[p]]
         IN  IF fetch.status = "short"
             THEN [outcome |-> Raise("ContentTooShortError", MsgTooShort),
                   files |-> written]
             ELSE [outcome |-> Return(None), files |-> written]

(* The directory part of a path, as the call finds it *)
ParentState(path) ==
    IF dirname(path) = <<>> THEN "bare"
    ELSE IF dirname(path) \in dirs THEN "exists"
    ELSE IF \E a \in Ancestors(dirname(path)) : a \in DOMAIN files THEN "blocked"
    ELSE "missing"

LocalPaths == {<<"f">>, <<"d", "f">>, <<"d", "e", "f">>, <<"x", "f">>}

--------------------------------------------------------------------------
(* The remote service, as the transport reports it: info.status_code,     *)
(* info.text_body and the decoded body ret.                                *)

FailCodes == {204, 404}
Bodies == {"{error: no such file or directory}", "{error: bad token}"}

FailResponses == [status_code : FailCodes, text_body : Bodies, ret : {None}]
OkResponse(ret) == [status_code |-> 200, text_body |-> "{}", ret |-> ret]

PutResponses == FailResponses \cup {OkResponse([hash |-> "Fh1"])}
PlainResponses == FailResponses \cup {OkResponse(None)}
StatResponses ==
    FailResponses \cup
    {OkResponse([fsize |-> 5, hash |-> "Fh1", putTime |-> 17]),
     OkResponse([fsize |-> 5, hash |-> "Fh1", putTime |-> 17,
                 mimeType |-> "text/plain"])}

(* The outcome of a call with what it did on the way: the token issuances
   and transport calls it made, and the local file system it leaves *)
Exec(out, ev, ds, fs) == [outcome |-> out, events |-> ev, dirs |-> ds, files |-> fs]

Failure(info) ==
    [success |-> FALSE, error |-> info.text_body, status_code |-> info.status_code]

--------------------------------------------------------------------------
(* Storage gateway *)

MsgLocalNotFound == "Local file not found"

(* upload_file that takes every 2xx status for a success *)
upload_file_any_2xx(local_file_path, remote_key, info, t) ==
    IF ~exists(local_file_path)
    THEN Exec(Raise("FileNotFoundError", MsgLocalNotFound), <<>>, dirs, files)
    ELSE IF info.status_code \div 100 = 2
    THEN Exec(Return([success |-> TRUE, key |-> remote_key,
                      size |-> files[local_file_path],
                      url |-> url_if_domain(remote_key).value]),
              <<"token", "put_file">>, dirs, files)
    ELSE Exec(Return(Failure(info)), <<"token", "put_file">>, dirs, files)

(* upload_file that issues the token before it looks at the local path *)
upload_file_token_first(local_file_path, remote_key, info, t) ==
    IF ~exists(local_file_path)
    THEN Exec(Raise("FileNotFoundError", MsgLocalNotFound), <<"token">>, dirs, files)
    ELSE IF info.status_code = 200
    THEN Exec(Return([success |-> TRUE, key |-> remote_key,
                      hash |-> info.ret.hash,
                      size |-> files[local_file_path],
                      url |-> url_if_domain(remote_key).value]),
              <<"token", "put_file">>, dirs, files)
    ELSE Exec(Return(Failure(info)), <<"token", "put_file">>, dirs, files)

(* upload_file that reports a missing local file in a result *)
upload_file_soft_missing(local_file_path, remote_key, info, t) ==
    IF ~exists(local_file_path)
    THEN Exec(Return([success |-> FALSE, error |-> MsgLocalNotFound]),
              <<>>, dirs, files)
    ELSE IF info.status_code = 200
    THEN Exec(Return([success |-> TRUE, key |-> remote_key,
                      hash |-> info.ret.hash,
                      size |-> files[local_file_path],
                      url |-> url_if_domain(remote_key).value]),
              <<"token", "put_file">>, dirs, files)
    ELSE Exec(Return(Failure(info)), <<"token", "put_file">>, dirs, files)

upload_file(local_file_path, remote_key, info, t) ==
    IF ~exists(local_file_path)
    THEN Exec(Raise("FileNotFoundError", MsgLocalNotFound), <<>>, dirs, files)
    ELSE LET token == generate_upload_token(Some(remote_key), None, t).token
             ev == <<"token", "put_file">>
             url == url_if_domain(remote_key)
         IN  IF info.status_code = 200
             THEN IF url.kind = "raise" THEN Exec(url, ev, dirs, files)
                  ELSE Exec(Return([success |-> TRUE,
                                    key |-> remote_key,
                                    hash |-> info.ret.hash,
                                    size |-> files[local_file_path],
                                    url |-> url.value]), ev, dirs, files)
             ELSE Exec(Return(Failure(info)), ev, dirs, files)

(* str.encode('utf-8') of a sequence of code points below 65536 *)
RECURSIVE encode_utf8(_)
encode_utf8(text) ==
    IF text = <<>> THEN <<>>
    ELSE LET c == Head(text)
             bytes == IF c < 128 THEN <<c>>
                      ELSE IF c < 2048 THEN <<192 + (c \div 64), 128 + (c % 64)>>
                      ELSE <<224 + (c \div 4096), 128 + ((c \div 64) % 64),
                             128 + (c % 64)>>
         IN  bytes \o encode_utf8(Tail(text))

DataArgs == {[type |-> "bytes", value |-> <<104, 101, 108, 108, 111>>],
             [type |-> "str", value |-> <<104, 233>>],
             [type |-> "str", value |-> <<>>]}

upload_data(data, remote_key, info, t) ==
    LET token == generate_upload_token(Some(remote_key), None, t).token
        bytes == IF data.type = "str" THEN encode_utf8(data.value) ELSE data.value
        ev == <<"token", "put_data">>
        url == url_if_domain(remote_key)
    IN  IF info.status_code = 200
        THEN IF url.kind = "raise" THEN Exec(url, ev, dirs, files)
             ELSE Exec(Return([success |-> TRUE,
                               key |-> remote_key,
                               hash |-> info.ret.hash,
                               size |-> Len(bytes),
                               url |-> url.value]), ev, dirs, files)
        ELSE Exec(Return(Failure(info)), ev, dirs, files)

(* The body of download_file's try block *)
download_file_try(remote_key, local_file_path, fetch, t) ==
    LET download_url == get_download_url(remote_key, None, t)
    IN  IF download_url.kind = "raise"
        THEN Exec(download_url, <<>>, dirs, files)
        ELSE LET made == makedirs(dirname(local_file_path))
             IN  IF made.outcome.kind = "raise"
                 THEN Exec(made.outcome, <<>>, made.dirs, files)
                 ELSE LET got == urlretrieve(download_url.value,
                                             local_file_path, fetch)
                      IN  IF got.outcome.kind = "raise"
                          THEN Exec(got.outcome, <<"urlretrieve">>,
                                    made.dirs, got.files)
                          ELSE Exec(Return([success |-> TRUE,
                                            key |-> remote_key,
                                            local_path |-> local_file_path,
                                            size |-> got.files[local_file_path]]),
                                    <<"urlretrieve">>, made.dirs, got.files)

(* download_file without the except clause *)
download_file_uncaught(remote_key, local_file_path, fetch, t) ==
    download_file_try(remote_key, local_file_path, fetch, t)

(* download_file whose failure result also names the key and the path *)
download_file_error_with_key(remote_key, local_file_path, fetch, t) ==
    LET body == download_file_try(remote_key, local_file_path, fetch, t)
    IN  IF body.outcome.kind = "raise"
        THEN Exec(Return([success |-> FALSE, key |-> remote_key,
                          local_path |-> local_file_path,
                          error |-> body.outcome.msg]),
                  body.events, body.dirs, body.files)
        ELSE body

(* download_file: "except Exception as e" turns whatever the body raised
   into a result *)
download_file(remote_key, local_file_path, fetch, t) ==
    LET body == download_file_try(remote_key, local_file_path, fetch, t)
    IN  IF body.outcome.kind = "raise"
        THEN Exec(Return([success |-> FALSE, error |-> body.outcome.msg]),
                  body.events, body.dirs, body.files)
        ELSE body

delete_file(remote_key, info) ==
    IF info.status_code = 200
    THEN Exec(Return([success |-> TRUE, key |-> remote_key]),
              <<"delete">>, dirs, files)
    ELSE Exec(Return(Failure(info)), <<"delete">>, dirs, files)

file_exists(remote_key, info) ==
    Exec(Return(info.status_code = 200), <<"stat">>, dirs, files)

get_file_info(remote_key, info) ==
    LET url == url_if_domain(remote_key)
        ret == info.ret
    IN  IF info.status_code = 200
        THEN IF url.kind = "raise" THEN Exec(url, <<"stat">>, dirs, files)
             ELSE Exec(Return([success |-> TRUE,
                               key |-> remote_key,
                               size |-> ret.fsize,
                               hash |-> ret.hash,
                               put_time |-> ret.putTime,
                               mime_type |-> IF "mimeType" \in DOMAIN ret
                                             THEN ret.mimeType ELSE "",
                               url |-> url.value]), <<"stat">>, dirs, files)
        ELSE Exec(Return(Failure(info)), <<"stat">>, dirs, files)

copy_file(src_key, dest_key, info) ==
    IF info.status_code = 200
    THEN Exec(Return([success |-> TRUE, src_key |-> src_key, dest_key |-> dest_key]),
              <<"copy">>, dirs, files)
    ELSE Exec(Return(Failure(info)), <<"copy">>, dirs, files)

move_file(src_key, dest_key, info) ==
    IF info.status_code = 200
    THEN Exec(Return([success |-> TRUE, src_key |-> src_key, dest_key |-> dest_key]),
              <<"move">>, dirs, files)
    ELSE Exec(Return(Failure(info)), <<"move">>, dirs, files)

--------------------------------------------------------------------------
(* Listing.  The bucket lists its keys in key order; ObjectKeys is that    *)
(* order.  A marker names the last key of the page before, '' the start.   *)

ObjectKeys == <<"docs/1", "docs/2", "docs/3", "img/1">>
Prefixes == {"", "docs/", "img/"}

KeyRank(key) == IF key = "" THEN 0 ELSE CHOOSE i \in 1..Len(ObjectKeys) : ObjectKeys[i] = key
KeyDir(key) == IF key \in {"docs/1", "docs/2", "docs/3"} THEN "docs/" ELSE "img/"
HasPrefix(key, prefix) == prefix = "" \/ KeyDir(key) = prefix

Markers == {""} \cup {ObjectKeys[i] : i \in 1..Len(ObjectKeys)}

Item(key) ==
    LET base == [key |-> key, fsize |-> 10 * KeyRank(key), hash |-> "Fh1",
                 putTime |-> 17]
    IN  IF KeyDir(key) = "docs/" THEN base @@ [mimeType |-> "text/plain"] ELSE base

(* The service's answer to a list request: the next keys under the prefix
   after the marker, limit at most, and a marker when more remain *)
bucket_list(prefix, limit, marker) ==
    LET rest == SelectSeq(ObjectKeys,
                    LAMBDA k : /\ k \in objects
                               /\ HasPrefix(k, prefix)
                               /\ KeyRank(k) > KeyRank(marker))
        n == IF Len(rest) < limit THEN Len(rest) ELSE limit
        items == [i \in 1..n |-> Item(rest[i])]
    IN  IF Len(rest) > limit
        THEN [items |-> items, marker |-> rest[n]]
        ELSE [items |-> items]

(* BucketManager.list: (ret, eof, info), eof when ret carries no marker *)
bucket_manager_list(ret) ==
    [status_code |-> 200, text_body |-> "{}", ret |-> ret,
     eof |-> "marker" \notin DOMAIN ret]

ListFailResponses ==
    [status_code : FailCodes, text_body : Bodies, ret : {None}, eof : {FALSE}]

ListResponses(prefix, limit, marker) ==
    ListFailResponses \cup {bucket_manager_list(bucket_list(prefix, limit, marker))}

FileRecord(item) ==
    [key |-> item.key,
     size |-> item.fsize,
     hash |-> item.hash,
     put_time |-> item.putTime,
     mime_type |-> IF "mimeType" \in DOMAIN item THEN item.mimeType ELSE "",
     url |-> url_if_domain(item.key).value]

(* list_files that does not hand the service's marker back *)
list_files_drops_marker(prefix, limit, marker, info) ==
    IF info.status_code = 200
    THEN LET fs == [i \in 1..Len(info.ret.items) |-> FileRecord(info.ret.items[i])]
         IN  Exec(Return([success |-> TRUE, files |-> fs, is_end |-> info.eof,
                          marker |-> "", total |-> Len(fs)]),
                  <<"list">>, dirs, files)
    ELSE Exec(Return(Failure(info)), <<"list">>, dirs, files)

list_files(prefix, limit, marker, info) ==
    IF info.status_code = 200
    THEN LET ret == info.ret
             fs == [i \in 1..Len(ret.items) |-> FileRecord(ret.items[i])]
         IN  Exec(Return([success |-> TRUE,
                          files |-> fs,
                          is_end |-> info.eof,
                          marker |-> IF "marker" \in DOMAIN ret THEN ret.marker ELSE "",
                          total |-> Len(fs)]), <<"list">>, dirs, files)
    ELSE Exec(Return(Failure(info)), <<"list">>, dirs, files)

--------------------------------------------------------------------------
(* State after construction *)

NoIssuance == [issued |-> FALSE]

LocalFiles == {<<"x">> :> 5}

InitFrom(cfgs, buckets, locals, prefixes, limits) ==
    /\ config \in cfgs
    /\ bucket_name = config.bucket_name
    /\ domain = config.domain
    /\ now = 0
    /\ dirs = {}
    /\ files \in locals
    /\ objects \in buckets
    /\ lastCall = [op |-> "__init__"]
    /\ outcome = NoOutcome
    /\ events = <<>>
    /\ policy = None
    /\ prevPrivate = NoIssuance
    /\ lastPrivate = NoIssuance
    /\ pgPrefix \in prefixes
    /\ pgLimit \in limits
    /\ pgMarker = ""
    /\ pages = <<>>
    /\ pgDone = FALSE

AllObjects == {ObjectKeys[i] : i \in 1..Len(ObjectKeys)}

--------------------------------------------------------------------------
(* Operations *)

paging == <<pgPrefix, pgLimit, pgMarker, pages, pgDone>>
client == <<config, bucket_name, domain, objects>>
issuances == <<prevPrivate, lastPrivate>>

(* A call of a gateway method: what it returned or raised, what it did, and
   the file system it leaves; a call that issues a token builds a policy *)
Called(call, ex) ==
    /\ lastCall' = call
    /\ outcome' = ex.outcome
    /\ events' = ex.events
    /\ dirs' = ex.dirs
    /\ files' = ex.files
    /\ policy' = IF "token" \in {ex.events[i] : i \in 1..Len(ex.events)}
                 THEN generate_upload_token(Some(call.remote_key), None, now).policy
                 ELSE policy

Tick ==
    /\ now < MaxTime
    /\ now' = now + 1
    /\ UNCHANGED <<client, dirs, files, lastCall, outcome, events, policy,
                   issuances, paging>>

GenerateUploadToken(key, expires) ==
    LET issued == generate_upload_token(key, expires, now)
    IN  /\ lastCall' = [op |-> "generate_upload_token", key |-> key,
                        expires |-> expires, at |-> now]
        /\ outcome' = Return(issued.token)
        /\ events' = <<"token">>
        /\ policy' = issued.policy
        /\ UNCHANGED <<client, now, dirs, files, issuances, paging>>

UploadFile(local_file_path, remote_key, info) ==
    /\ Called([op |-> "upload_file", local_file_path |-> local_file_path,
               remote_key |-> remote_key, info |-> info],
              upload_file(local_file_path, remote_key, info, now))
    /\ UNCHANGED <<client, now, issuances, paging>>

UploadData(data, remote_key, info) ==
    /\ Called([op |-> "upload_data", data |-> data, remote_key |-> remote_key,
               info |-> info],
              upload_data(data, remote_key, info, now))
    /\ UNCHANGED <<client, now, issuances, paging>>

DownloadFile(remote_key, local_file_path, fetch) ==
    /\ Called([op |-> "download_file", remote_key |-> remote_key,
               local_file_path |-> local_file_path, fetch |-> fetch,
               parent |-> ParentState(local_file_path)],
              download_file(remote_key, local_file_path, fetch, now))
    /\ UNCHANGED <<client, now, issuances, paging>>

DeleteFile(remote_key, info) ==
    /\ Called([op |-> "delete_file", remote_key |-> remote_key, info |-> info],
              delete_file(remote_key, info))
    /\ UNCHANGED <<client, now, issuances, paging>>

FileExists(remote_key, info) ==
    /\ Called([op |-> "file_exists", remote_key |-> remote_key, info |-> info],
              file_exists(remote_key, info))
    /\ UNCHANGED <<client, now, issuances, paging>>

GetFileInfo(remote_key, info) ==
    /\ Called([op |-> "get_file_info", remote_key |-> remote_key, info |-> info],
              get_file_info(remote_key, info))
    /\ UNCHANGED <<client, now, issuances, paging>>

CopyFile(src_key, dest_key, info) ==
    /\ Called([op |-> "copy_file", src_key |-> src_key, dest_key |-> dest_key,
               info |-> info],
              copy_file(src_key, dest_key, info))
    /\ UNCHANGED <<client, now, issuances, paging>>

MoveFile(src_key, dest_key, info) ==
    /\ Called([op |-> "move_file", src_key |-> src_key, dest_key |-> dest_key,
               info |-> info],
              move_file(src_key, dest_key, info))
    /\ UNCHANGED <<client, now, issuances, paging>>

ListFiles(prefix, limit, marker, info) ==
    /\ Called([op |-> "list_files", prefix |-> prefix, limit |-> limit,
               marker |-> marker, info |-> info],
              list_files(prefix, limit, marker, info))
    /\ UNCHANGED <<client, now, issuances, paging>>

(* A call of a URL method: it touches nothing but returns or raises *)
UrlCalled(op, remote_key, expires, out) ==
    /\ lastCall' = [op |-> op, remote_key |-> remote_key, expires |-> expires,
                    at |-> now]
    /\ outcome' = out
    /\ events' = <<>>
    /\ UNCHANGED <<client, now, dirs, files, policy, paging>>

GetPublicUrl(remote_key) ==
    /\ UrlCalled("get_public_url", remote_key, None, get_public_url(remote_key))
    /\ UNCHANGED issuances

GetPrivateUrl(remote_key, expires) ==
    /\ UrlCalled("get_private_url", remote_key, expires,
                 get_private_url(remote_key, expires, now))
    /\ UNCHANGED issuances

GetDownloadUrl(remote_key, expires) ==
    /\ UrlCalled("get_download_url", remote_key, expires,
                 get_download_url(remote_key, expires, now))
    /\ UNCHANGED issuances

(* The same calls with the caller keeping the last two URLs it was given *)
Kept(remote_key, expires, out) ==
    IF out.kind = "return"
    THEN /\ prevPrivate' = lastPrivate
         /\ lastPrivate' = [issued |-> TRUE, remote_key |-> remote_key,
                            expires |-> url_expires(expires),
                            at |-> now, url |-> out.value]
    ELSE UNCHANGED issuances

KeepPrivateUrl(remote_key, expires) ==
    LET out == get_private_url(remote_key, expires, now)
    IN  UrlCalled("get_private_url", remote_key, expires, out) /\ Kept(remote_key, expires, out)

KeepDownloadUrl(remote_key, expires) ==
    LET out == get_download_url(remote_key, expires, now)
    IN  UrlCalled("get_download_url", remote_key, expires, out) /\ Kept(remote_key, expires, out)

(* A caller paging through a listing: it calls list_files with the marker of
   the page before until a page says is_end; a failed call is called again *)
ListPage(info) ==
    LET ex == list_files(pgPrefix, pgLimit, pgMarker, info)
        result == ex.outcome.value
    IN  /\ ~pgDone
        /\ lastCall' = [op |-> "list_files", prefix |-> pgPrefix, limit |-> pgLimit,
                        marker |-> pgMarker, info |-> info]
        /\ outcome' = ex.outcome
        /\ events' = ex.events
        /\ IF result.success
           THEN /\ pages' = Append(pages, result)
                /\ pgMarker' = result.marker
                /\ pgDone' = result.is_end
           ELSE UNCHANGED <<pages, pgMarker, pgDone>>
        /\ UNCHANGED <<client, now, dirs, files, policy, issuances, pgPrefix, pgLimit>>

--------------------------------------------------------------------------
(* Specifications *)

(* The storage gateway and the URL methods, on a client with or without a
   domain *)
GatewayConfigs ==
    {c \in Configs : /\ c.upload_policy = PlainUploadPolicy
                     /\ c.download.expires = None
                     /\ c.download.https = Some(TRUE)}

Init == InitFrom(GatewayConfigs, {AllObjects}, LocalFiles, {""}, {1})

Next ==
    \/ \E p \in LocalPaths \cup {<<"x">>}, k \in RemoteKeys, info \in PutResponses :
          UploadFile(p, k, info)
    \/ \E d \in DataArgs, k \in RemoteKeys, info \in PutResponses :
          UploadData(d, k, info)
    \/ \E k \in RemoteKeys, p \in LocalPaths, fetch \in Fetches :
          DownloadFile(k, p, fetch)
    \/ \E k \in RemoteKeys, info \in PlainResponses : DeleteFile(k, info)
    \/ \E k \in RemoteKeys, info \in StatResponses : FileExists(k, info)
    \/ \E k \in RemoteKeys, info \in StatResponses : GetFileInfo(k, info)
    \/ \E k1 \in RemoteKeys, k2 \in RemoteKeys, info \in PlainResponses :
          CopyFile(k1, k2, info)
    \/ \E k1 \in RemoteKeys, k2 \in RemoteKeys, info \in PlainResponses :
          MoveFile(k1, k2, info)
    \/ \E pre \in Prefixes, limit \in {2}, m \in {"", "docs/1"} :
          \E info \in ListResponses(pre, limit, m) : ListFiles(pre, limit, m, info)
    \/ \E k \in RemoteKeys : GetPublicUrl(k)
    \/ \E k \in RemoteKeys, e \in UrlExpiresArgs : GetPrivateUrl(k, e)
    \/ \E k \in RemoteKeys, e \in UrlExpiresArgs : GetDownloadUrl(k, e)

Spec == Init /\ [][Next]_vars

(* The token issuer, under every upload policy the configuration can give *)
TokenConfigs ==
    {c \in Configs : c.domain = "" /\ c.download = PlainDownload}

InitToken == InitFrom(TokenConfigs, {AllObjects}, LocalFiles, {""}, {1})

NextToken ==
    \/ Tick
    \/ \E k \in KeyArgs, e \in ExpiresArgs : GenerateUploadToken(k, e)

SpecToken == InitToken /\ [][NextToken]_vars

(* The URL signer, with a caller that keeps the URLs it is given *)
UrlConfigs ==
    {c \in Configs : c.upload_policy = PlainUploadPolicy}

InitUrl == InitFrom(UrlConfigs, {AllObjects}, LocalFiles, {""}, {1})

NextUrl ==
    \/ Tick
    \/ \E k \in RemoteKeys : GetPublicUrl(k)
    \/ \E k \in RemoteKeys, e \in UrlExpiresArgs : KeepPrivateUrl(k, e)
    \/ \E k \in RemoteKeys, e \in UrlExpiresArgs : KeepDownloadUrl(k, e)

SpecUrl == InitUrl /\ [][NextUrl]_vars

(* A caller paging through a listing of a bucket that does not change *)
PagingConfigs ==
    {c \in Configs : /\ c.upload_policy = PlainUploadPolicy
                     /\ c.download = PlainDownload}

InitPaging ==
    InitFrom(PagingConfigs, SUBSET AllObjects, LocalFiles, Prefixes, 1..MaxLimit)

NextPaging ==
    \E info \in ListResponses(pgPrefix, pgLimit, pgMarker) : ListPage(info)

SpecPaging == InitPaging /\ [][NextPaging]_vars

--------------------------------------------------------------------------
(* Properties *)

StatusOps == {"upload_file", "upload_data", "delete_file", "copy_file",
              "move_file", "list_files", "get_file_info"}
ResultOps == StatusOps \cup {"download_file"}
UrlOps == {"get_public_url", "get_private_url", "get_download_url"}

(* The last call got an answer from the transport *)
Answered == lastCall.op \in StatusOps /\ Len(events) > 0 /\ events[Len(events)] # "token"

(* C1: a status-normalising method that got status s from the service
   returns, never raises; its result has success = TRUE exactly when
   s = 200, and for any other s it is exactly success = FALSE with the
   transport's error body and s *)
C1_StatusNormalised ==
    Answered =>
        /\ outcome.kind = "return"
        /\ outcome.value.success <=> lastCall.info.status_code = 200
        /\ lastCall.info.status_code # 200 =>
              outcome.value = [success |-> FALSE,
                               error |-> lastCall.info.text_body,
                               status_code |-> lastCall.info.status_code]

C1_Witness ==
    /\ lastCall.op = "upload_file"
    /\ Answered
    /\ lastCall.info.status_code = 204
    /\ domain = ""
    /\ outcome.kind = "return"
    /\ ~outcome.value.success

SuccessFields == {"key", "hash", "size", "url", "files", "is_end", "marker",
                  "total", "local_path", "src_key", "dest_key", "put_time",
                  "mime_type"}

(* C2: every result a gateway method returns has one branch only: with
   success = TRUE there is no error field, with success = FALSE there is an
   error field and no success field *)
C2_OneBranch ==
    (lastCall.op \in ResultOps /\ outcome.kind = "return") =>
        LET result == outcome.value
        IN  /\ result.success => "error" \notin DOMAIN result
            /\ ~result.success =>
                  /\ "error" \in DOMAIN result
                  /\ DOMAIN result \cap SuccessFields = {}

C2_Witness ==
    /\ lastCall.op = "download_file"
    /\ lastCall.fetch.status = "error"
    /\ domain # ""
    /\ outcome.kind = "return"
    /\ ~outcome.value.success
    /\ DOMAIN outcome.value = {"success", "error"}

(* C3: upload_file on a local path that does not exist raises the
   local-input error, returns no result, and has issued no token and made
   no transport call *)
C3_MissingPathFailsFirst ==
    (lastCall.op = "upload_file" /\ ~exists(lastCall.local_file_path)) =>
        /\ outcome.kind = "raise"
        /\ outcome.exc = "FileNotFoundError"
        /\ events = <<>>

C3_Witness ==
    /\ lastCall.op = "upload_file"
    /\ lastCall.local_file_path = <<"d", "f">>
    /\ ~exists(lastCall.local_file_path)
    /\ lastCall.info.status_code = 200
    /\ outcome.kind = "raise"

(* The ttl of the last token issuance: the argument, else the configured
   expiry, else the default *)
IssuedTtl ==
    IF IsNone(lastCall.expires)
    THEN IF IsNone(config.upload_policy.expires) THEN DefaultExpires
         ELSE config.upload_policy.expires[1]
    ELSE lastCall.expires[1]

(* C4: the policy of generate_upload_token has deadline = issuance time +
   ttl, to the second, and scope = the bucket when no key is given, else
   bucket:key *)
C4_DeadlineAndScope ==
    lastCall.op = "generate_upload_token" =>
        /\ policy.deadline * TicksPerSec <= lastCall.at + IssuedTtl * TicksPerSec
        /\ lastCall.at + IssuedTtl * TicksPerSec < (policy.deadline + 1) * TicksPerSec
        /\ lastCall.key = <<>> => policy.scope = <<"bucket">>
        /\ lastCall.key # <<>> => policy.scope = <<"bucket", ":", lastCall.key[1]>>

C4_Witness ==
    /\ lastCall.op = "generate_upload_token"
    /\ lastCall.key = <<"">>
    /\ lastCall.expires = <<>>
    /\ config.upload_policy.expires = <<1>>
    /\ lastCall.at = MaxTime
    /\ policy.scope = <<"bucket", ":", "">>

(* C5 as claimed: every policy built has its deadline strictly after the
   time of issuance *)
C5_DeadlineInFuture ==
    lastCall.op = "generate_upload_token" =>
        policy.deadline * TicksPerSec > lastCall.at

(* C5 amended: a policy built with a positive ttl has its deadline strictly
   after the time of issuance *)
C5_PositiveTtlInFuture ==
    (lastCall.op = "generate_upload_token" /\ IssuedTtl > 0) =>
        policy.deadline * TicksPerSec > lastCall.at

C5_Witness ==
    /\ lastCall.op = "generate_upload_token"
    /\ lastCall.expires = <<>>
    /\ config.upload_policy.expires = <<1>>
    /\ lastCall.at % TicksPerSec # 0
    /\ lastCall.at > TicksPerSec
    /\ policy.deadline * TicksPerSec > lastCall.at

ConfigurationErrors == {MsgNoDomainPublic, MsgNoDomainPrivate}
LocalInputErrors == {MsgLocalNotFound}

(* C6 as claimed: no result a public operation returns carries a
   configuration error or a local-input error *)
C6_NeverInResult ==
    (lastCall.op \in ResultOps /\ outcome.kind = "return"
        /\ ~outcome.value.success) =>
        outcome.value.error \notin ConfigurationErrors \cup LocalInputErrors

(* C6 amended: every public operation but download_file raises them (a URL
   method without a domain raises, upload_file of a missing path raises,
   and a failure result of a status-normalising method carries the
   transport's body); download_file without a domain returns the
   configuration error in a failure result *)
C6_RaisedExceptByDownload ==
    /\ (lastCall.op \in UrlOps /\ domain = "") =>
          (outcome.kind = "raise" /\ outcome.exc = "ValueError"
              /\ outcome.msg \in ConfigurationErrors)
    /\ (lastCall.op = "upload_file" /\ ~exists(lastCall.local_file_path)) =>
          (outcome.kind = "raise" /\ outcome.exc = "FileNotFoundError"
              /\ outcome.msg \in LocalInputErrors)
    /\ (lastCall.op \in StatusOps /\ outcome.kind = "return"
            /\ ~outcome.value.success) =>
          outcome.value.error \notin ConfigurationErrors \cup LocalInputErrors
    /\ (lastCall.op = "download_file" /\ domain = "") =>
          (outcome.kind = "return" /\ ~outcome.value.success
              /\ outcome.value.error \in ConfigurationErrors)

C6_Witness ==
    /\ lastCall.op = "get_download_url"
    /\ domain = ""
    /\ outcome.kind = "raise"
    /\ outcome.msg = MsgNoDomainPrivate

(* The last download_file call met something that raises: no domain, a
   directory that cannot be made, or a failed transfer *)
DownloadRaised ==
    \/ domain = ""
    \/ lastCall.parent \in {"bare", "blocked"}
    \/ lastCall.fetch.status # "ok"

(* C7: download_file always returns; whenever URL resolution, directory
   creation or the transfer raised, the result is success = FALSE with the
   exception's message *)
C7_DownloadNeverRaises ==
    lastCall.op = "download_file" =>
        /\ outcome.kind = "return"
        /\ DownloadRaised =>
              /\ ~outcome.value.success
              /\ outcome.value.error \in
                    {MsgNoDomainPrivate, MsgNoSuchFile, MsgFileExists,
                     MsgNotADirectory, MsgHttpError, MsgTooShort}

C7_Witness ==
    /\ lastCall.op = "download_file"
    /\ domain # ""
    /\ lastCall.parent = "missing"
    /\ lastCall.fetch.status = "short"
    /\ outcome.kind = "return"
    /\ outcome.value.error = MsgTooShort

(* The keys of the records of a page *)
PageKeys(page) == {page.files[j].key : j \in 1..Len(page.files)}

(* The keys a listing of pgPrefix has to give *)
Matching == {k \in objects : HasPrefix(k, pgPrefix)}

(* C8: paging from the empty marker with the marker of the page before:
   every page has at most limit records and total = its number of records;
   every page but the last has is_end = FALSE, a marker and a record, so
   the calls end after at most as many pages as there are keys, plus one;
   no key comes twice; once a page has is_end = TRUE the pages hold exactly
   the keys under the prefix; three keys with limit 2 come as 2 then 1 *)
C8_Pagination ==
    LET n == Len(pages)
    IN  /\ \A i \in 1..n :
              /\ Len(pages[i].files) <= pgLimit
              /\ pages[i].total = Len(pages[i].files)
              /\ Cardinality(PageKeys(pages[i])) = Len(pages[i].files)
              /\ PageKeys(pages[i]) \subseteq Matching
        /\ \A i \in 1..n :
              (i < n \/ ~pgDone) =>
                  /\ ~pages[i].is_end
                  /\ pages[i].marker # ""
                  /\ Len(pages[i].files) >= 1
        /\ \A i \in 1..n : \A j \in 1..n :
              i # j => PageKeys(pages[i]) \cap PageKeys(pages[j]) = {}
        /\ n <= Cardinality(Matching) + 1
        /\ pgDone =>
              /\ n >= 1
              /\ pages[n].is_end
              /\ UNION {PageKeys(pages[i]) : i \in 1..n} = Matching
        /\ (pgDone /\ Cardinality(Matching) = 3 /\ pgLimit = 2) =>
              (n = 2 /\ pages[1].total = 2 /\ pages[2].total = 1)

C8_Witness ==
    /\ pgDone
    /\ pgPrefix = "docs/"
    /\ pgLimit = 2
    /\ objects = AllObjects
    /\ Len(pages) = 2
    /\ pages[1].marker = "docs/2"
    /\ pages[2].total = 1

(* The caller holds two private URLs for one key, signed with two expiries *)
TwoExpiries ==
    /\ prevPrivate.issued
    /\ lastPrivate.issued
    /\ prevPrivate.remote_key = lastPrivate.remote_key
    /\ prevPrivate.expires # lastPrivate.expires

(* C9 as claimed: two private URLs for one key with two expiries differ,
   whenever they were issued *)
C9_ExpiriesGiveDistinctUrls ==
    TwoExpiries => prevPrivate.url # lastPrivate.url

(* C9 amended: two private URLs for one key with two expiries differ when
   their deadlines (second of issuance + expiry) differ, so always when they
   were issued in the same second *)
C9_DeadlinesGiveDistinctUrls ==
    (TwoExpiries
        /\ prevPrivate.at \div TicksPerSec + prevPrivate.expires
              # lastPrivate.at \div TicksPerSec + lastPrivate.expires) =>
        prevPrivate.url # lastPrivate.url

C9_Witness ==
    /\ TwoExpiries
    /\ prevPrivate.at \div TicksPerSec = lastPrivate.at \div TicksPerSec
    /\ prevPrivate.at # lastPrivate.at
    /\ prevPrivate.url # lastPrivate.url

(* C10: with a domain, a transfer that would succeed and a local path
   whose directory exists, can be made, or is not named at all (a bare
   file name), download_file returns success = TRUE with key, local_path
   and size *)
C10_DownloadSucceeds ==
    (lastCall.op = "download_file" /\ domain # ""
        /\ lastCall.fetch.status = "ok"
        /\ lastCall.parent \in {"bare", "exists", "missing"}) =>
        /\ outcome.kind = "return"
        /\ outcome.value.success
        /\ {"key", "local_path", "size"} \subseteq DOMAIN outcome.value

====
